---------------------------- MODULE Spec2Model ----------------------------
(***************************************************************************)
(* Forward-computation core of the GPT model of src/core/model.py:        *)
(* EmbeddingDecoder, CausalSelfAttention, Block and GPT.                   *)
(*                                                                         *)
(* Two levels are modelled.                                                *)
(*  - The model level (GPT.__init__, GPT.build, GPT.call, the optimizer's  *)
(*    writes to the token embedding table): tensor shapes with numpy       *)
(*    broadcasting, the lazily built decoder bias, the order and data flow *)
(*    of the layers, the dropout sites, the tied decoder kernel.           *)
(*  - The layer level (CausalSelfAttention.call on integer tensors): the   *)
(*    scores, the rewrite of zero scores to -inf, the softmax, the         *)
(*    weighted sum and the output projection, in exact arithmetic.         *)
(***************************************************************************)
EXTENDS Integers, Sequences, FiniteSets, TLC

VARIABLES
    config,      \* GPTConfig handed to GPT.__init__
    phase,       \* "new" | "constructed" | "init_error"
    blocks,      \* GPT.blocks: the Blocks in list order, each with its initializers
    embeddings,  \* GPT.tok_emb.embeddings, <<>> until the layer is built
    bias_T,      \* T of EmbeddingDecoder.bias, shape (1,T,V); 0 while there is no bias weight
    pending,     \* sum of the optimizer's deltas to embeddings since the last head call
    nMut,        \* number of optimizer writes so far
    last,        \* the most recent GPT.call: its arguments and what it returned or raised
    misused,     \* whether a call before the most recent one broke the input contract
    ref,         \* an earlier inference-mode GPT.call kept by the caller for comparison
    attn,        \* parameters of one CausalSelfAttention layer
    attn_last    \* the most recent CausalSelfAttention.call on that layer

vars == <<config, phase, blocks, embeddings, bias_T, pending, nMut, last, misused, ref, attn, attn_last>>

(***************************************************************************)
(* Bounds                                                                  *)
(***************************************************************************)
MaxBlockSize == 2
MaxLayer == 2
MaxMut == 1

VocabSizes == {2}
HiddenSizes == {2, 3}
HeadCounts == {1, 2}
BatchSizes == {1, 2}
\* dropout rate in tenths: 0.0 and 0.5
DropoutRates == {0, 5}
\* the random source of one invocation, named by its seed
Seeds == {1, 2}
\* what one optimizer write adds to one entry of the table
Deltas == {-1, 1}

Min(a, b) == IF a <= b THEN a ELSE b

Configs ==
    [vocab_size : VocabSizes, block_size : 1..MaxBlockSize,
     hidden_size : HiddenSizes, n_head : HeadCounts, n_layer : 1..MaxLayer,
     dropout : DropoutRates, bias : BOOLEAN]

(***************************************************************************)
(* Initializers                                                            *)
(***************************************************************************)
\* RandomNormal(mean=0.0, stddev=0.02 / sqrt(div)): the stddev is kept as the
\* exact pair (hundredths, radicand of the divisor).
RandomNormal(hundredths, div) == [kind |-> "normal", hundredths |-> hundredths, div |-> div]
Zeros == [kind |-> "zeros", hundredths |-> 0, div |-> 1]

\* (mutant) the assertion is missing
AttnInitOk_unchecked(c) == TRUE

\* CausalSelfAttention.__init__: the assertion on the head count.
AttnInitOk(c) == c.hidden_size % c.n_head = 0

\* CausalSelfAttention.__init__: the initializers of its two Dense layers.
AttnInit(c) ==
    [attn_kernel |-> RandomNormal(2, 1),
     attn_bias   |-> Zeros,
     proj_kernel |-> RandomNormal(2, 2 * c.n_layer),
     proj_bias   |-> Zeros]

\* Block.__init__: one attention layer and the MLP's two Dense layers.
BlockInit(c, k) ==
    [id |-> k,
     attn |-> AttnInit(c),
     mlp_fc_kernel   |-> RandomNormal(2, 1),
     mlp_fc_bias     |-> Zeros,
     mlp_proj_kernel |-> RandomNormal(2, 1),
     mlp_proj_bias   |-> Zeros]

\* GPT.__init__: the list comprehension builds n_layer Blocks, one after the
\* other; the first failing constructor aborts the construction.
GPTInitOk(c) == \A k \in 1..c.n_layer : AttnInitOk(c)

\* GPT.__init__ and GPT.build: the initializers of the two embeddings and of
\* the decoder bias.
TokEmbInit == RandomNormal(2, 1)
PosEmbInit == RandomNormal(2, 1)
HeadBiasInit == Zeros

\* Embedding initial table (one draw of RandomNormal, in integer units): a V x H
\* table whose entries are pairwise distinct.
InitTable(c) ==
    [v \in 1..c.vocab_size |-> [h \in 1..c.hidden_size |-> (v - 1) * c.hidden_size + h]]

ZeroTable(c) ==
    [v \in 1..c.vocab_size |-> [h \in 1..c.hidden_size |-> 0]]

(***************************************************************************)
(* Shapes                                                                  *)
(***************************************************************************)
\* numpy broadcasting of one axis; 0 stands for "not broadcastable".
BroadcastDim(a, b) ==
    IF a = b THEN a ELSE IF a = 1 THEN b ELSE IF b = 1 THEN a ELSE 0

\* numpy broadcasting of two rank-3 shapes; <<>> stands for a shape error.
Broadcast(s, t) ==
    LET r == [i \in 1..3 |-> BroadcastDim(s[i], t[i])]
    IN IF \E i \in 1..3 : r[i] = 0 THEN <<>> ELSE r

\* K.ops.transpose of a matrix given as rows.
Transpose(w) ==
    IF w = <<>> THEN <<>>
    ELSE [h \in DOMAIN w[1] |-> [v \in DOMAIN w |-> w[v][h]]]

(***************************************************************************)
(* Inputs of GPT.call                                                      *)
(***************************************************************************)
\* Token ids offered to the model: the valid ids 0..V-1 and the two nearest
\* invalid ones.
Ids(c) == (-1)..c.vocab_size

InRange(c, id) == 0 <= id /\ id < c.vocab_size

\* Batches of shape (B,T): all zeros but for the last cell.
Batches(c, B, T) ==
    {[b \in 1..B |-> [t \in 1..T |-> IF b = B /\ t = T THEN id ELSE 0]] : id \in Ids(c)}

AllInRange(c, tokens) ==
    \A b \in DOMAIN tokens : \A t \in DOMAIN tokens[b] : InRange(c, tokens[b][t])

\* Embedding lookup of a token batch. The source does not check the ids; what
\* an out-of-range id does is the backend's choice: the lookup raises, or it
\* returns some row (zeros, NaN, a clamped or wrapped row) and the call goes on.
LookupOutcomes(c, tokens) ==
    IF AllInRange(c, tokens) THEN {"rows"} ELSE {"raise", "garbage"}

(***************************************************************************)
(* Layers of the forward pass                                              *)
(***************************************************************************)
\* (mutant) the layer ignores the training flag
DropoutActive_always(rate, training) == rate > 0

\* layers.Dropout: whether the layer drops anything in this invocation.
DropoutActive(rate, training) == training /\ rate > 0

\* layers.Dropout: the identity unless active; then the result depends on the
\* mask drawn for this invocation (named by its seed).
Dropout(rate, training, seed) ==
    IF DropoutActive(rate, training) THEN seed ELSE 0

\* The random source is read only by an active Dropout layer: the draws one
\* invocation can see.
DropoutSeeds(training) ==
    IF DropoutActive(config.dropout, training) THEN Seeds ELSE {1}

\* One step of the computation: the layer, the block it belongs to (0: the
\* model itself), the steps whose values it consumes (0: the token batch) and
\* the dropout masks drawn inside it.
Step(op, blk, src, noise) == [op |-> op, blk |-> blk, src |-> src, noise |-> noise]

\* Block.call on the value produced by the last step of tr.
BlockCall(b, tr, training, seed) ==
    LET c == config
        x == Len(tr)
    IN tr \o
       << Step("ln1", b.id, {x}, <<>>),
          Step("attn", b.id, {x + 1},
               << Dropout(c.dropout, training, seed), Dropout(c.dropout, training, seed) >>),
          Step("add", b.id, {x, x + 2}, <<>>),
          Step("ln2", b.id, {x + 3}, <<>>),
          Step("mlp", b.id, {x + 4}, << Dropout(c.dropout, training, seed) >>),
          Step("add", b.id, {x + 3, x + 5}, <<>>) >>

\* (mutant) the blocks are applied from the last to the first
RECURSIVE ApplyBlocks_reversed(_, _, _, _)
ApplyBlocks_reversed(bs, tr, training, seed) ==
    IF bs = <<>> THEN tr
    ELSE ApplyBlocks_reversed(SubSeq(bs, 1, Len(bs) - 1),
                              BlockCall(bs[Len(bs)], tr, training, seed), training, seed)

\* GPT.call: for block in self.blocks: x = block(x, training=training)
RECURSIVE ApplyBlocks(_, _, _, _)
ApplyBlocks(bs, tr, training, seed) ==
    IF bs = <<>> THEN tr
    ELSE ApplyBlocks(Tail(bs), BlockCall(Head(bs), tr, training, seed), training, seed)

\* (mutant) the decoder owns a copy of the table made when it was created
DecoderWeight_copy == InitTable(config)

\* The token embedding table as a call sees it: Embedding.build has run
\* before any layer that reads it.
BuiltTable == IF embeddings = <<>> THEN InitTable(config) ELSE embeddings

\* EmbeddingDecoder.call: the weight it reads through tied_to, the token
\* embedding layer itself.
DecoderWeight == BuiltTable

DecoderKernel == Transpose(DecoderWeight)

NoCall ==
    [status |-> "none", B |-> 0, T |-> 0, tokens |-> <<>>, training |-> FALSE,
     errAt |-> "", shape |-> <<>>, trace |-> <<>>, kernel |-> <<>>]

Raised(B, T, tokens, training, at) ==
    [status |-> "error", B |-> B, T |-> T, tokens |-> tokens, training |-> training,
     errAt |-> at, shape |-> <<>>, trace |-> <<>>, kernel |-> <<>>]

Returned(B, T, tokens, training, shape, trace, kernel) ==
    [status |-> "ok", B |-> B, T |-> T, tokens |-> tokens, training |-> training,
     errAt |-> "", shape |-> shape, trace |-> trace, kernel |-> kernel]

\* The caller's record of a kept call: the call, whether a training-mode call
\* was made since, whether any call was made since.
Kept(call, trained, again) == [call |-> call, trained |-> trained, again |-> again]

NoRef == Kept(NoCall, FALSE, FALSE)

\* T of the decoder bias once EmbeddingDecoder.build has run on an input of
\* shape (B,T,H): built on the first call only, and only with use_bias.
BiasAfterBuild(T) ==
    IF ~config.bias THEN 0 ELSE IF bias_T = 0 THEN T ELSE bias_T

\* GPT.call, from the token batch to the logits or the error raised.
Forward(B, T, tokens, training, outcome, seed) ==
    LET c == config
        wte == <<B, T, c.hidden_size>>
        wpe == <<1, Min(T, c.block_size), c.hidden_size>>
        x0  == Broadcast(wte, wpe)
    IN IF outcome = "raise" THEN Raised(B, T, tokens, training, "tok_emb")
       ELSE IF x0 = <<>> THEN Raised(B, T, tokens, training, "add_pos")
       ELSE
         LET tr0 == << Step("tok_emb", 0, {0}, <<>>),
                       Step("pos_emb", 0, {}, <<>>),
                       Step("add", 0, {1, 2}, <<>>),
                       Step("drop", 0, {3}, << Dropout(c.dropout, training, seed) >>) >>
             tr1 == ApplyBlocks(blocks, tr0, training, seed)
             n   == Len(tr1)
             tr2 == tr1 \o << Step("ln_f", 0, {n}, <<>>), Step("head", 0, {n + 1}, <<>>) >>
             mm  == <<x0[1], x0[2], c.vocab_size>>
             out == IF c.bias
                    THEN Broadcast(mm, <<1, BiasAfterBuild(x0[2]), c.vocab_size>>)
                    ELSE mm
         IN IF out = <<>> THEN Raised(B, T, tokens, training, "head_bias")
            ELSE Returned(B, T, tokens, training, out, tr2, DecoderKernel)

\* The forward contract on the input: T <= block_size and every id in range.
BrokeContract(call) ==
    /\ call.status # "none"
    /\ (call.T > config.block_size \/ ~AllInRange(config, call.tokens))

\* Whether the call reaches self.head(x), which builds the decoder.
ReachesHead(B, T, outcome) ==
    /\ outcome # "raise"
    /\ Broadcast(<<B, T, config.hidden_size>>,
                 <<1, Min(T, config.block_size), config.hidden_size>>) # <<>>

(***************************************************************************)
(* Exact arithmetic for the attention layer                                *)
(*                                                                         *)
(* Inputs and parameters are integers, so q, k, v and the dot products     *)
(* q.k are integers. A score is dot / sqrt(hs); its exponential is         *)
(* E^dot with E = exp(1/sqrt(hs)), a transcendental number. Softmax        *)
(* weights and everything computed from them are therefore quotients of    *)
(* integer polynomials in E, and two quotients are the same number exactly *)
(* when they cross-multiply to the same polynomial.                        *)
(***************************************************************************)
\* Sum of the values of a function with a finite domain.
RECURSIVE SumFn(_)
SumFn(f) ==
    IF DOMAIN f = {} THEN 0
    ELSE LET x == CHOOSE x \in DOMAIN f : TRUE
         IN f[x] + SumFn([y \in DOMAIN f \ {x} |-> f[y]])

\* A polynomial in E: exponent |-> non-zero integer coefficient.
PolyNorm(p) == [e \in {x \in DOMAIN p : p[x] # 0} |-> p[e]]
PolyZero == [e \in {} |-> 0]
PolyMono(e) == [x \in {e} |-> 1]
PolyCoef(p, e) == IF e \in DOMAIN p THEN p[e] ELSE 0
PolyAdd(p, q) == PolyNorm([e \in DOMAIN p \cup DOMAIN q |-> PolyCoef(p, e) + PolyCoef(q, e)])
PolyScale(p, k) == PolyNorm([e \in DOMAIN p |-> k * p[e]])
PolyMul(p, q) ==
    PolyNorm([e \in {a + b : a \in DOMAIN p, b \in DOMAIN q} |->
                SumFn([a \in {y \in DOMAIN p : (e - y) \in DOMAIN q} |-> p[a] * q[e - a]])])

\* A float: NaN, or the quotient n / d of two polynomials in E.
NaN == [nan |-> TRUE, n |-> PolyZero, d |-> PolyZero]
Quot(n, d) == [nan |-> FALSE, n |-> n, d |-> d]
FromInt(k) == Quot(PolyScale(PolyMono(0), k), PolyMono(0))
FAdd(a, b) ==
    IF a.nan \/ b.nan THEN NaN
    ELSE IF a.d = b.d THEN Quot(PolyAdd(a.n, b.n), a.d)
    ELSE Quot(PolyAdd(PolyMul(a.n, b.d), PolyMul(b.n, a.d)), PolyMul(a.d, b.d))
FScale(a, k) == IF a.nan THEN NaN ELSE Quot(PolyScale(a.n, k), a.d)
\* the same float: both NaN, or the same number
FSame(a, b) ==
    IF a.nan \/ b.nan THEN a.nan = b.nan
    ELSE PolyMul(a.n, b.d) = PolyMul(b.n, a.d)

\* Sum of floats fs[1..n].
RECURSIVE FSum(_, _)
FSum(fs, n) == IF n = 0 THEN FromInt(0) ELSE FAdd(FSum(fs, n - 1), fs[n])

(***************************************************************************)
(* CausalSelfAttention.call on one sequence (B = 1) of integer vectors     *)
(***************************************************************************)
\* CausalSelfAttention.__init__: tril(ones(1, block_size, block_size)).
Mask(c) ==
    [i \in 1..c.block_size |-> [j \in 1..c.block_size |-> IF j <= i THEN 1 ELSE 0]]

\* C x C matrices the parameters are drawn from: zero, identity, reversal.
MatZero(C) == [r \in 1..C |-> [k \in 1..C |-> 0]]
MatId(C) == [r \in 1..C |-> [k \in 1..C |-> IF r = k THEN 1 ELSE 0]]
MatRev(C) == [r \in 1..C |-> [k \in 1..C |-> IF r + k = C + 1 THEN 1 ELSE 0]]

\* The fused q/k/v kernel, C x 3C, from its three C x C parts.
Fused(C, wq, wk, wv) ==
    [r \in 1..C |-> [k \in 1..(3 * C) |->
        IF k <= C THEN wq[r][k] ELSE IF k <= 2 * C THEN wk[r][k - C] ELSE wv[r][k - 2 * C]]]

\* Parameter values of the layer: the two kernels, the two biases (zeros as
\* initialized, absent without config.bias) and the mask attribute.
AttnParams(c) ==
    LET C == c.hidden_size
    IN {[attn_kernel |-> Fused(C, wq, wk, MatId(C)),
         attn_bias   |-> [k \in 1..(3 * C) |-> 0],
         proj_kernel |-> wp,
         proj_bias   |-> [k \in 1..C |-> 0],
         mask        |-> Mask(c)] :
            wq \in {MatZero(C), MatId(C)}, wk \in {MatId(C), MatRev(C)},
            wp \in {MatId(C), MatRev(C)}}

\* Inputs of the layer: T vectors of C entries, each 0 or 1.
AttnInputs(c, T) == [1..T -> [1..c.hidden_size -> {0, 1}]]

\* layers.Dense on integers: x . kernel (+ bias).
Dense(x, kernel, bias, use_bias) ==
    [t \in DOMAIN x |-> [k \in DOMAIN kernel[1] |->
        SumFn([r \in DOMAIN kernel |-> x[t][r] * kernel[r][k]])
            + (IF use_bias THEN bias[k] ELSE 0)]]

\* K.ops.split(attended, 3, axis=2)[part], part 0, 1 or 2.
Split(attended, C, part) ==
    [t \in DOMAIN attended |-> [k \in 1..C |-> attended[t][part * C + k]]]

\* reshape to (T, n_head, hs) and transpose to (n_head, T, hs).
Heads(m, nh, hs) ==
    [h \in 1..nh |-> [t \in DOMAIN m |-> [d \in 1..hs |-> m[t][(h - 1) * hs + d]]]]

\* matmul(q, transpose(k)) * (1 / sqrt(hs)): the dot products, in units of
\* 1 / sqrt(hs).
Scores(q, k, T, hs) ==
    [h \in DOMAIN q |-> [i \in 1..T |-> [j \in 1..T |->
        SumFn([d \in 1..hs |-> q[h][i][d] * k[h][j][d]])]]]

\* where(equal(att, 0), -inf, att)
ZeroToNegInf(att) ==
    [h \in DOMAIN att |-> [i \in DOMAIN att[h] |-> [j \in DOMAIN att[h][i] |->
        [inf |-> att[h][i][j] = 0, v |-> att[h][i][j]]]]]

\* softmax over the last axis of one row: NaN when every entry is -inf.
SoftmaxRow(row) ==
    LET fin == {j \in DOMAIN row : ~row[j].inf}
        den == PolyNorm([e \in {row[j].v : j \in fin} |->
                            Cardinality({j \in fin : row[j].v = e})])
    IN [j \in DOMAIN row |->
          IF fin = {} THEN NaN
          ELSE IF row[j].inf THEN Quot(PolyZero, den)
          ELSE Quot(PolyMono(row[j].v), den)]

Softmax(att) ==
    [h \in DOMAIN att |-> [i \in DOMAIN att[h] |-> SoftmaxRow(att[h][i])]]

\* layers.Dropout with rate 0.5 on one float: when active, the mask named by
\* seed 2 drops the elements flagged first, every kept element is scaled by
\* 1 / (1 - rate) = 2.
DropFloat(f, rate, training, seed, first) ==
    IF ~DropoutActive(rate, training) THEN f
    ELSE IF seed = 2 /\ first THEN FScale(f, 0)
    ELSE FScale(f, 2)

\* CausalSelfAttention.call
AttnForward(x, training, seed) ==
    LET c   == config
        C   == c.hidden_size
        nh  == c.n_head
        hs  == C \div nh
        T   == Len(x)
        attended == Dense(x, attn.attn_kernel, attn.attn_bias, c.bias)
        q   == Heads(Split(attended, C, 0), nh, hs)
        k   == Heads(Split(attended, C, 1), nh, hs)
        v   == Heads(Split(attended, C, 2), nh, hs)
        att == ZeroToNegInf(Scores(q, k, T, hs))
        sm  == Softmax(att)
        w   == [h \in 1..nh |-> [i \in 1..T |-> [j \in 1..T |->
                  DropFloat(sm[h][i][j], c.dropout, training, seed,
                            h = 1 /\ i = 1 /\ j = 1)]]]
        yh  == [h \in 1..nh |-> [i \in 1..T |-> [d \in 1..hs |->
                  FSum([j \in 1..T |-> FScale(w[h][i][j], v[h][j][d])], T)]]]
        \* transpose to (T, n_head, hs) and reshape to (T, C)
        y   == [i \in 1..T |-> [k2 \in 1..C |->
                  yh[((k2 - 1) \div hs) + 1][i][((k2 - 1) % hs) + 1]]]
        pr  == [i \in 1..T |-> [k2 \in 1..C |->
                  FAdd(FSum([r \in 1..C |-> FScale(y[i][r], attn.proj_kernel[r][k2])], C),
                       FromInt(IF c.bias THEN attn.proj_bias[k2] ELSE 0))]]
        out == [i \in 1..T |-> [k2 \in 1..C |->
                  DropFloat(pr[i][k2], c.dropout, training, seed, i = T /\ k2 = C)]]
    IN [x |-> x, training |-> training, att |-> att, out |-> out]

(***************************************************************************)
(* Actions                                                                 *)
(***************************************************************************)
InitOver(cs) ==
    /\ config \in cs
    /\ phase = "new"
    /\ blocks = <<>>
    /\ embeddings = <<>>
    /\ bias_T = 0
    /\ pending = <<>>
    /\ nMut = 0
    /\ last = NoCall
    /\ misused = FALSE
    /\ ref = NoRef
    /\ attn = <<>>
    /\ attn_last = <<>>

\* GPT.__init__
Construct ==
    /\ phase = "new"
    /\ IF GPTInitOk(config)
       THEN /\ phase' = "constructed"
            /\ blocks' = [k \in 1..config.n_layer |-> BlockInit(config, k)]
       ELSE /\ phase' = "init_error"
            /\ blocks' = <<>>
    /\ UNCHANGED <<config, embeddings, bias_T, pending, nMut, last, misused, ref, attn, attn_last>>

\* GPT.__call__ on a (B,T) batch: builds what is not built yet, then GPT.call.
Call ==
    /\ phase = "constructed"
    /\ \E B \in BatchSizes, T \in 1..(config.block_size + 1), training \in BOOLEAN :
       \E tokens \in Batches(config, B, T), seed \in DropoutSeeds(training) :
       \E outcome \in LookupOutcomes(config, tokens) :
          /\ embeddings' = BuiltTable
          /\ last' = Forward(B, T, tokens, training, outcome, seed)
          /\ IF ReachesHead(B, T, outcome)
             THEN /\ bias_T' = BiasAfterBuild(T)
                  /\ pending' = IF last'.status = "ok" THEN ZeroTable(config) ELSE pending
             ELSE UNCHANGED <<bias_T, pending>>
          /\ misused' = (misused \/ BrokeContract(last))
          /\ ref' = IF ref = NoRef THEN ref
                    ELSE Kept(ref.call, ref.trained \/ training, TRUE)
    /\ UNCHANGED <<config, phase, blocks, nMut, attn, attn_last>>

\* The external optimizer writes one entry of the token embedding table.
Mutate ==
    /\ phase = "constructed"
    /\ embeddings # <<>>
    /\ nMut < MaxMut
    /\ \E v \in 1..config.vocab_size, h \in 1..config.hidden_size, d \in Deltas :
          /\ embeddings' = [embeddings EXCEPT ![v][h] = @ + d]
          /\ pending' = IF pending = <<>> THEN pending
                        ELSE [pending EXCEPT ![v][h] = @ + d]
    /\ nMut' = nMut + 1
    /\ UNCHANGED <<config, phase, blocks, bias_T, last, misused, ref, attn, attn_last>>

\* The caller keeps what an inference-mode call returned (or raised).
Pin ==
    /\ last.status # "none"
    /\ ~last.training
    /\ ref # Kept(last, FALSE, FALSE)
    /\ ref' = Kept(last, FALSE, FALSE)
    /\ UNCHANGED <<config, phase, blocks, embeddings, bias_T, pending, nMut, last, misused, attn, attn_last>>

\* The attention layer's parameters are written: by its initializers when it
\* is built, later by the optimizer or a checkpoint load.
AttnLoad ==
    /\ phase = "constructed"
    /\ \E p \in AttnParams(config) : attn' = p /\ attn # p
    /\ attn_last' = <<>>
    /\ UNCHANGED <<config, phase, blocks, embeddings, bias_T, pending, nMut, last, misused, ref>>

\* CausalSelfAttention.__call__ on a sequence of T <= block_size vectors.
AttnCall ==
    /\ phase = "constructed"
    /\ attn # <<>>
    /\ \E T \in 1..config.block_size, training \in BOOLEAN :
       \E x \in AttnInputs(config, T), seed \in DropoutSeeds(training) :
          attn_last' = AttnForward(x, training, seed)
    /\ UNCHANGED <<config, phase, blocks, embeddings, bias_T, pending, nMut, last, misused, ref, attn>>

(***************************************************************************)
(* Specifications                                                          *)
(***************************************************************************)
\* The attention layer alone: hidden size 2, one or two heads.
AttnConfigs == {c \in Configs : c.hidden_size = 2 /\ c.n_layer = 1}

InitAttn == InitOver(AttnConfigs)

NextAttn == Construct \/ AttnLoad \/ AttnCall

SpecAttn == InitAttn /\ [][NextAttn]_vars

Init == InitOver(Configs)

Next == Construct \/ Call

\* Every configuration; construction and forward calls.
Spec == Init /\ [][Next]_vars

\* One block, one head, no dropout; forward calls interleaved with the
\* optimizer's writes to the embedding table.
TieConfigs ==
    {c \in Configs : c.block_size = 1 /\ c.n_layer = 1 /\ c.n_head = 1 /\ c.dropout = 0}

InitTie == InitOver(TieConfigs)

NextTie == Construct \/ Call \/ Mutate

SpecTie == InitTie /\ [][NextTie]_vars

\* One block, one head, context length 1 or 2, with and without dropout and
\* bias; the caller keeps one inference result and compares later ones with it.
DetConfigs ==
    {c \in Configs : c.block_size \in {1, 2} /\ c.n_layer = 1 /\ c.n_head = 1 /\ c.hidden_size = 2}

InitDet == InitOver(DetConfigs)

NextDet == Construct \/ Call \/ Pin

SpecDet == InitDet /\ [][NextDet]_vars

(***************************************************************************)
(* Claims                                                                  *)
(***************************************************************************)
ValidCall == last.status # "none" /\ AllInRange(config, last.tokens)

Finite(out) == \A i \in DOMAIN out : \A k \in DOMAIN out[i] : ~out[i][k].nan

\* C1: in inference mode the attention output at position i is the same for
\* any two inputs that agree at positions 1..i, whatever follows (stated for
\* inputs whose outputs are all finite).
C1_NoLookAhead ==
    (attn_last # <<>> /\ ~attn_last.training /\ Finite(attn_last.out))
        => \A x2 \in AttnInputs(config, Len(attn_last.x)) :
             LET o2 == AttnForward(x2, FALSE, 1).out
             IN \A i \in DOMAIN x2 :
                  (Finite(o2) /\ \A t \in 1..i : x2[t] = attn_last.x[t])
                      => \A k \in DOMAIN o2[i] : FSame(o2[i][k], attn_last.out[i][k])

\* C10: after zero scores are rewritten to -inf, every row of the score
\* matrix keeps a finite entry, the diagonal one at least, and no output of
\* the layer is NaN.
C10_SoftmaxDefined ==
    attn_last # <<>>
        => /\ \A h \in DOMAIN attn_last.att : \A i \in DOMAIN attn_last.att[h] :
                ~attn_last.att[h][i][i].inf
           /\ Finite(attn_last.out)

\* C2: every call on a (B,T) batch of valid ids with T <= block_size returns
\* logits of shape exactly (B,T,vocab_size), whatever the sequence lengths of
\* the earlier (valid) calls were and whether config.bias is set or not.
C2_LogitsShape ==
    (ValidCall /\ last.T <= config.block_size /\ ~misused)
        => /\ last.status = "ok"
           /\ last.shape = <<last.B, last.T, config.vocab_size>>

\* C3: a call with T = block_size succeeds; a call with T > block_size raises
\* a shape error when the embeddings are added, before any block, and returns
\* nothing.
C3_LengthBoundary ==
    ValidCall
        => /\ last.T = config.block_size => last.status = "ok"
           /\ last.T > config.block_size
                => last.status = "error" /\ last.errAt = "add_pos" /\ last.shape = <<>>

\* C4: the kernel the decoder multiplied by in the last successful call is the
\* transpose of the embedding table as it was then: the current table less the
\* deltas the optimizer has written since. A delta written to the table shows,
\* transposed, in the kernel of the next call.
C4_WeightTying ==
    last.status = "ok"
        => last.kernel =
             [h \in 1..config.hidden_size |->
                [v \in 1..config.vocab_size |-> embeddings[v][h] - pending[v][h]]]

\* a successful call made after the optimizer changed the table
C4_Witness ==
    /\ last.status = "ok"
    /\ nMut > 0
    /\ pending = ZeroTable(config)
    /\ embeddings # InitTable(config)

\* C5: a configuration whose hidden_size is not a multiple of n_head never
\* yields a model: construction fails, no block list, no weights and no
\* forward call ever exist.
C5_EagerConfigCheck ==
    (config.hidden_size % config.n_head # 0)
        => /\ phase \in {"new", "init_error"}
           /\ blocks = <<>>
           /\ embeddings = <<>>
           /\ last = NoCall

C5_Witness ==
    phase = "init_error" /\ config.hidden_size % config.n_head # 0

\* C6: in every Block both residual-path projections (attention output, MLP
\* contraction) are initialized with stddev 0.02 / sqrt(2 * n_layer); every
\* other kernel and both embeddings with stddev 0.02; every bias with zeros.
C6_ResidualInitScaling ==
    phase = "constructed"
        => /\ \A k \in DOMAIN blocks :
                /\ blocks[k].attn.proj_kernel = RandomNormal(2, 2 * config.n_layer)
                /\ blocks[k].mlp_proj_kernel = RandomNormal(2, 2 * config.n_layer)
                /\ blocks[k].attn.attn_kernel = RandomNormal(2, 1)
                /\ blocks[k].mlp_fc_kernel = RandomNormal(2, 1)
                /\ blocks[k].attn.attn_bias = Zeros
                /\ blocks[k].attn.proj_bias = Zeros
                /\ blocks[k].mlp_fc_bias = Zeros
                /\ blocks[k].mlp_proj_bias = Zeros
           /\ TokEmbInit = RandomNormal(2, 1)
           /\ PosEmbInit = RandomNormal(2, 1)
           /\ HeadBiasInit = Zeros

\* C7: a call on a batch holding an id outside [0, vocab_size) raises at the
\* embedding lookup and returns no logits.
C7_TokenRangeCheck ==
    (last.status # "none" /\ ~AllInRange(config, last.tokens))
        => last.status = "error" /\ last.errAt = "tok_emb" /\ last.shape = <<>>

\* C8: an inference-mode call on valid tokens returns exactly what the kept
\* inference-mode call on the same tokens returned, whatever calls (training
\* or inference, any length) were made in between.
C8_InferenceDeterminism ==
    (/\ ref.again
     /\ ~last.training
     /\ last.tokens = ref.call.tokens
     /\ AllInRange(config, last.tokens))
        => last = ref.call

\* the same tokens again after a training-mode call with dropout active
C8_Witness ==
    /\ ref.again
    /\ ref.trained
    /\ config.dropout > 0
    /\ ~last.training
    /\ last.status = "ok"
    /\ last.tokens = ref.call.tokens
    /\ AllInRange(config, last.tokens)

\* The step at place i of a forward pass over n blocks, in closed form.
ExpectedStep(i, n) ==
    LET k == ((i - 5) \div 6) + 1
        x == 4 + 6 * (k - 1)
        j == i - x
    IN IF i = 1 THEN [op |-> "tok_emb", blk |-> 0, src |-> {0}]
       ELSE IF i = 2 THEN [op |-> "pos_emb", blk |-> 0, src |-> {}]
       ELSE IF i = 3 THEN [op |-> "add", blk |-> 0, src |-> {1, 2}]
       ELSE IF i = 4 THEN [op |-> "drop", blk |-> 0, src |-> {3}]
       ELSE IF i = 4 + 6 * n + 1 THEN [op |-> "ln_f", blk |-> 0, src |-> {4 + 6 * n}]
       ELSE IF i = 4 + 6 * n + 2 THEN [op |-> "head", blk |-> 0, src |-> {4 + 6 * n + 1}]
       ELSE IF j = 1 THEN [op |-> "ln1", blk |-> k, src |-> {x}]
       ELSE IF j = 2 THEN [op |-> "attn", blk |-> k, src |-> {x + 1}]
       ELSE IF j = 3 THEN [op |-> "add", blk |-> k, src |-> {x, x + 2}]
       ELSE IF j = 4 THEN [op |-> "ln2", blk |-> k, src |-> {x + 3}]
       ELSE IF j = 5 THEN [op |-> "mlp", blk |-> k, src |-> {x + 4}]
       ELSE [op |-> "add", blk |-> k, src |-> {x + 3, x + 5}]

\* C9: in every call that returns, the blocks run in construction order, each
\* once, block k on the output of block k-1 (block 1 on the dropped-out sum of
\* the embeddings); ln_f and the head run after the last block; inside a block
\* the attention residual comes before the MLP residual.
C9_BlockOrder ==
    last.status = "ok"
        => /\ Len(last.trace) = 4 + 6 * config.n_layer + 2
           /\ \A k \in DOMAIN blocks : blocks[k].id = k
           /\ \A i \in DOMAIN last.trace :
                [op |-> last.trace[i].op, blk |-> last.trace[i].blk, src |-> last.trace[i].src]
                    = ExpectedStep(i, config.n_layer)

\* a call through at least two blocks
C9_Witness ==
    /\ last.status = "ok"
    /\ config.n_layer >= 2
    /\ \E i \in DOMAIN last.trace : last.trace[i].op = "mlp" /\ last.trace[i].blk = 2

=============================================================================
